---- MODULE Spec2Model ----
(***************************************************************************)
(* Model of the Kalshi trading bot core: Trader (src/src/trader.py) and    *)
(* the scheduler loop of main (src/src/main.py).                           *)
(*                                                                         *)
(* Money (bankroll, price) is counted in whole ticks.  The configured      *)
(* fraction MAX_POSITION_SIZE_PERCENTAGE is the rational f[1] / f[2]; the  *)
(* comparison and the division of the position sizing are computed on      *)
(* cross-multiplied integers, i.e. in exact arithmetic.                    *)
(*                                                                         *)
(* Besides the program state (current_positions, bankroll, the configured  *)
(* fraction, the position of main), the model keeps a record of the last   *)
(* operation: its inputs, the book before it, the quantity it applied,     *)
(* the notifier calls it made and whether an exception left it.            *)
(***************************************************************************)
EXTENDS Integers, Sequences, FiniteSets, TLC

\* ------------------------------------------------------------------ bounds
MaxQty == 3
MaxPrice == 3
MaxPos == 2
MaxMarkets == 2

\* ------------------------------------------------------------ value domains
Markets == {"m1", "m2"}

\* market.get('id') of a record without an id: None
NoneId == "None"

\* market.get('current_price') of a record without a price: None
NonePrice == -1

\* a price that is not a number (a string taken from the JSON snapshot)
StrPrice == -2

Bankrolls == {5, 20}

\* MAX_POSITION_SIZE_PERCENTAGE as <<numerator, denominator>>, in (0, 1]
Fractions == {<<1, 10>>, <<1, 2>>}

Sides == {"buy", "sell", "hold"}

\* the value None passed as trade_decision
NoDecision == [event_id |-> NoneId, action |-> "none", quantity |-> 0, price |-> 0]

Decisions ==
    [event_id : Markets, action : Sides, quantity : 1..MaxQty,
     price : (1..MaxPrice) \cup {StrPrice}]

MarketRecords ==
    [id : Markets \cup {NoneId}, current_price : (0..MaxPrice) \cup {NonePrice, StrPrice}]

MarketLists == UNION {[1..n -> MarketRecords] : n \in 0..MaxMarkets}

\* what fetch_market_data returns: None, {}, a dict without 'markets', or
\* a dict with a 'markets' list
NoSnapshot == [kind |-> "none", markets |-> <<>>]

Snapshots ==
    {NoSnapshot, [kind |-> "empty", markets |-> <<>>], [kind |-> "nokey", markets |-> <<>>]}
    \cup {[kind |-> "dict", markets |-> ms] : ms \in MarketLists}

VARIABLES
    bankroll,           \* Trader.bankroll
    maxPositionSize,    \* config.MAX_POSITION_SIZE_PERCENTAGE, <<num, den>>
    current_positions,  \* Trader.current_positions: a function on the keys present
    pc,                 \* position of main: "run", "sleep", "handler", "done"
    op,                 \* the last operation: "init", "execute_trade", "run_trading_strategy", "sleep"
    before,             \* current_positions before the last operation
    snapshot,           \* the snapshot fetched by the last operation
    decision,           \* the trade_decision handed to execute_trade by the last operation
    applied,            \* the quantity the last operation added to or took from the book
    outcome,            \* how the last operation ended
    notifications,      \* the notifier calls of the last operation, in order
    raised,             \* whether an exception left the last operation
    steps               \* the calls the last operation made, in order

vars ==
    <<bankroll, maxPositionSize, current_positions, pc, op, before, snapshot,
      decision, applied, outcome, notifications, raised, steps>>

\* ------------------------------------------------------------ python values
\* truth value of an id as tested by `if event_id and ...`
TruthyId(id) == id # NoneId

\* truth value of a price as tested by `... and current_price`
TruthyPrice(p) == p # NonePrice /\ p # 0

\* truth value of a trade_decision as tested by `if not trade_decision`
TruthyDecision(d) == d # NoDecision

\* truth value of a snapshot as tested by `if not market_data`
TruthySnapshot(md) == md.kind \in {"nokey", "dict"}

\* dict.get(event_id, 0)
Get(book, id) == IF id \in DOMAIN book THEN book[id] ELSE 0

\* book[id] = v
Put(book, id, v) == [k \in DOMAIN book \cup {id} |-> IF k = id THEN v ELSE book[k]]

\* ------------------------------------------------------------ notifier calls
\* send_trade_notification(f"{side} {quantity} units of {event_id} at {price}.")
TradeNote(side, quantity, event_id, price, ok) ==
    [kind |-> "trade", side |-> side, quantity |-> quantity,
     event_id |-> event_id, price |-> price, ok |-> ok]

\* send_error_notification(...), naming event_id when execute_trade sends it
ErrorNote(event_id, ok) ==
    [kind |-> "error", side |-> "", quantity |-> 0,
     event_id |-> event_id, price |-> 0, ok |-> ok]

\* what an operation leaves behind
Result(book, qty, how, notes, exc) ==
    [book |-> book, applied |-> qty, outcome |-> how, notes |-> notes, raised |-> exc]

\* ------------------------------------------------------------ _make_trade_decision
\* `market_data and 'markets' in market_data and market_data['markets']`
HasMarkets(md) == TruthySnapshot(md) /\ md.kind = "dict" /\ md.markets # <<>>

\* variant of UsableMarket: `or` in place of `and`
UsableMarketEither(market) == TruthyId(market.id) \/ TruthyPrice(market.current_price)

\* `if event_id and current_price`
UsableMarket(market) == TruthyId(market.id) /\ TruthyPrice(market.current_price)

\* the proposal of line 29
BuyOne(market) ==
    [event_id |-> market.id, action |-> "buy", quantity |-> 1, price |-> market.current_price]

\* variant of MakeTradeDecision: a default proposal where there is no market
MakeTradeDecisionDefault(md) ==
    IF HasMarkets(md)
    THEN IF UsableMarket(md.markets[1]) THEN BuyOne(md.markets[1]) ELSE NoDecision
    ELSE [event_id |-> "m1", action |-> "buy", quantity |-> 1, price |-> 1]

\* _make_trade_decision(market_data)
MakeTradeDecision(md) ==
    IF HasMarkets(md)
    THEN IF UsableMarket(md.markets[1]) THEN BuyOne(md.markets[1]) ELSE NoDecision
    ELSE NoDecision

\* ------------------------------------------------------------ position sizing
\* `(quantity * price) > max_trade_value`, max_trade_value = bankroll * f[1]/f[2]
ExceedsMax(q, p, B, f) == q * p * f[2] > B * f[1]

\* variant of AdjustedQuantity: rounding up
AdjustedQuantityCeil(p, B, f) == (B * f[1] + f[2] * p - 1) \div (f[2] * p)

\* `int(max_trade_value / price)`, price > 0
AdjustedQuantity(p, B, f) == (B * f[1]) \div (f[2] * p)

\* variant of SizedQuantity: no position sizing
SizedQuantityUnsized(q, p, B, f) == q

\* the quantity after the position sizing block
SizedQuantity(q, p, B, f) ==
    IF ExceedsMax(q, p, B, f) THEN AdjustedQuantity(p, B, f) ELSE q

\* variant of SkipTrade: the zero check left out
SkipTradeNever(q, p, B, f) == FALSE

\* `if quantity == 0: return`, inside the adjusting branch
SkipTrade(q, p, B, f) == ExceedsMax(q, p, B, f) /\ SizedQuantity(q, p, B, f) = 0

\* ------------------------------------------------------------ the book update
\* variant of ApplyTrade: `else` in place of `elif action == 'sell'`
ApplyTradeElse(book, id, action, qty) ==
    IF action = "buy" THEN Put(book, id, Get(book, id) + qty)
    ELSE Put(book, id, Get(book, id) - qty)

\* variant of ApplyTrade: the sell branch adds
ApplyTradeSellAdds(book, id, action, qty) ==
    CASE action = "buy" -> Put(book, id, Get(book, id) + qty)
      [] action = "sell" -> Put(book, id, Get(book, id) + qty)
      [] OTHER -> book

\* the if / elif of the try block: buy adds, sell subtracts, else nothing
ApplyTrade(book, id, action, qty) ==
    CASE action = "buy" -> Put(book, id, Get(book, id) + qty)
      [] action = "sell" -> Put(book, id, Get(book, id) - qty)
      [] OTHER -> book

\* the send_trade_notification call of the branch taken, if any
TradeNotes(id, action, qty, price, ok) ==
    CASE action = "buy" -> <<TradeNote("Bought", qty, id, price, ok)>>
      [] action = "sell" -> <<TradeNote("Sold", qty, id, price, ok)>>
      [] OTHER -> <<>>

\* ------------------------------------------------------------ execute_trade
\* variant of NoOp: the early return reports an error
NoOpNotifies(book) == Result(book, 0, "noop", <<ErrorNote(NoneId, TRUE)>>, FALSE)

\* `if not trade_decision: ... return`
NoOp(book) == Result(book, 0, "noop", <<>>, FALSE)

\* variant of TryBook: the handler undoes the position update
TryBookRollsBack(book, d, qty, tradeOk, errOk) ==
    LET book2 == ApplyTrade(book, d.event_id, d.action, qty)
        notes == TradeNotes(d.event_id, d.action, qty, d.price, tradeOk)
        moved == IF notes = <<>> THEN 0 ELSE qty
    IN  IF notes = <<>> THEN Result(book2, 0, "rejected", <<>>, FALSE)
        ELSE IF tradeOk THEN Result(book2, moved, "booked", notes, FALSE)
        ELSE Result(book, moved, IF errOk THEN "error_reported" ELSE "error_raised",
                    notes \o <<ErrorNote(d.event_id, errOk)>>, ~errOk)

\* variant of TryBook: the message carries the quantity asked for
TryBookNotifiesRequested(book, d, qty, tradeOk, errOk) ==
    LET book2 == ApplyTrade(book, d.event_id, d.action, qty)
        notes == TradeNotes(d.event_id, d.action, d.quantity, d.price, tradeOk)
        moved == IF notes = <<>> THEN 0 ELSE qty
    IN  IF notes = <<>> THEN Result(book2, 0, "rejected", <<>>, FALSE)
        ELSE IF tradeOk THEN Result(book2, moved, "booked", notes, FALSE)
        ELSE Result(book2, moved, IF errOk THEN "error_reported" ELSE "error_raised",
                    notes \o <<ErrorNote(d.event_id, errOk)>>, ~errOk)

\* the try block and its handler; tradeOk / errOk: whether the notifier's
\* send_trade_notification / send_error_notification return or raise
TryBook(book, d, qty, tradeOk, errOk) ==
    LET book2 == ApplyTrade(book, d.event_id, d.action, qty)
        notes == TradeNotes(d.event_id, d.action, qty, d.price, tradeOk)
        moved == IF notes = <<>> THEN 0 ELSE qty
    IN  IF notes = <<>> THEN Result(book2, 0, "rejected", <<>>, FALSE)
        ELSE IF tradeOk THEN Result(book2, moved, "booked", notes, FALSE)
        ELSE Result(book2, moved, IF errOk THEN "error_reported" ELSE "error_raised",
                    notes \o <<ErrorNote(d.event_id, errOk)>>, ~errOk)

\* execute_trade(trade_decision); a non-numeric price makes the comparison
\* of line 44 raise TypeError, outside the try block
ExecuteTrade(book, d, B, f, tradeOk, errOk) ==
    IF ~TruthyDecision(d) THEN NoOp(book)
    ELSE IF d.price = StrPrice
         THEN Result(book, 0, "sizing_raised", <<>>, TRUE)
    ELSE IF SkipTrade(d.quantity, d.price, B, f)
         THEN Result(book, 0, "skipped", <<>>, FALSE)
    ELSE TryBook(book, d, SizedQuantity(d.quantity, d.price, B, f), tradeOk, errOk)

\* ------------------------------------------------------------ run_trading_strategy
\* run_trading_strategy(); fetchOk: whether fetch_market_data returns or raises
RunTradingStrategy(book, fetchOk, md, B, f, tradeOk, errOk) ==
    IF ~fetchOk THEN Result(book, 0, "fetch_raised", <<>>, TRUE)
    ELSE IF ~TruthySnapshot(md) THEN Result(book, 0, "no_data", <<>>, FALSE)
    ELSE IF TruthyDecision(MakeTradeDecision(md))
         THEN ExecuteTrade(book, MakeTradeDecision(md), B, f, tradeOk, errOk)
    ELSE Result(book, 0, "no_opportunity", <<>>, FALSE)

\* the positions stay within the model's range
InRange(book) == \A k \in DOMAIN book : book[k] \in (-MaxPos)..MaxPos

\* ------------------------------------------------------------ initial state
Init ==
    /\ bankroll \in Bankrolls
    /\ maxPositionSize \in Fractions
    /\ current_positions = <<>>
    /\ pc = "run"
    /\ op = "init"
    /\ before = <<>>
    /\ snapshot = NoSnapshot
    /\ decision = NoDecision
    /\ applied = 0
    /\ outcome = "init"
    /\ notifications = <<>>
    /\ raised = FALSE
    /\ steps = <<>>

\* the last-operation record after an operation with result r
Record(name, md, d, r) ==
    /\ op' = name
    /\ before' = current_positions
    /\ snapshot' = md
    /\ decision' = d
    /\ current_positions' = r.book
    /\ applied' = r.applied
    /\ outcome' = r.outcome
    /\ notifications' = r.notes
    /\ raised' = r.raised

\* ------------------------------------------------------------ Trader called directly
\* trader.execute_trade(d) with a proposal
ExecuteTradeCall ==
    \E d \in Decisions, tradeOk \in BOOLEAN, errOk \in BOOLEAN :
        LET r == ExecuteTrade(current_positions, d, bankroll, maxPositionSize, tradeOk, errOk)
        IN  /\ InRange(r.book)
            /\ tradeOk => errOk
            /\ Record("execute_trade", NoSnapshot, d, r)
            /\ steps' = <<"execute">>
            /\ UNCHANGED <<bankroll, maxPositionSize, pc>>

\* trader.execute_trade(None)
ExecuteNoneCall ==
    LET r == ExecuteTrade(current_positions, NoDecision, bankroll, maxPositionSize, TRUE, TRUE)
    IN  /\ Record("execute_trade", NoSnapshot, NoDecision, r)
        /\ steps' = <<"execute">>
        /\ UNCHANGED <<bankroll, maxPositionSize, pc>>

Next == ExecuteTradeCall \/ ExecuteNoneCall

Spec == Init /\ [][Next]_vars

\* ------------------------------------------------------------ main
\* the decision run_trading_strategy hands to execute_trade, if it gets there
CycleDecision(fetchOk, md) ==
    IF fetchOk /\ TruthySnapshot(md) THEN MakeTradeDecision(md) ELSE NoDecision

\* the calls of one run_trading_strategy(): fetch_market_data, then
\* _make_trade_decision unless the snapshot is false (line 100), then
\* execute_trade if there is a proposal (line 127)
CycleSteps(fetchOk, md) ==
    IF ~(fetchOk /\ TruthySnapshot(md)) THEN <<"fetch">>
    ELSE IF TruthyDecision(MakeTradeDecision(md)) THEN <<"fetch", "decide", "execute">>
    ELSE <<"fetch", "decide">>

\* variant of MainCycle: a pass without market data goes on without sleeping
MainCycleNoSleep ==
    /\ pc = "run"
    /\ \E fetchOk \in BOOLEAN, md \in Snapshots, tradeOk \in BOOLEAN, errOk \in BOOLEAN :
        LET r == RunTradingStrategy(current_positions, fetchOk, md, bankroll,
                                    maxPositionSize, tradeOk, errOk)
        IN  /\ InRange(r.book)
            /\ fetchOk \/ md = NoSnapshot
            /\ tradeOk => errOk
            /\ Record("run_trading_strategy", md, CycleDecision(fetchOk, md), r)
            /\ steps' = CycleSteps(fetchOk, md)
            /\ pc' = IF r.raised THEN "handler"
                     ELSE IF r.outcome = "no_data" THEN "run" ELSE "sleep"
    /\ UNCHANGED <<bankroll, maxPositionSize>>

\* one pass of the loop body up to the sleep: trader.run_trading_strategy()
MainCycle ==
    /\ pc = "run"
    /\ \E fetchOk \in BOOLEAN, md \in Snapshots, tradeOk \in BOOLEAN, errOk \in BOOLEAN :
        LET r == RunTradingStrategy(current_positions, fetchOk, md, bankroll,
                                    maxPositionSize, tradeOk, errOk)
        IN  /\ InRange(r.book)
            /\ fetchOk \/ md = NoSnapshot
            /\ tradeOk => errOk
            /\ Record("run_trading_strategy", md, CycleDecision(fetchOk, md), r)
            /\ steps' = CycleSteps(fetchOk, md)
            /\ pc' = IF r.raised THEN "handler" ELSE "sleep"
    /\ UNCHANGED <<bankroll, maxPositionSize>>

\* time.sleep(TRADE_INTERVAL_SECONDS), then the next pass
MainSleep ==
    /\ pc = "sleep"
    /\ pc' = "run"
    /\ Record("sleep", NoSnapshot, NoDecision, Result(current_positions, 0, "slept", <<>>, FALSE))
    /\ steps' = <<"sleep">>
    /\ UNCHANGED <<bankroll, maxPositionSize>>

\* the handler's call notifier.send_error_notification(str(e)), added to the
\* record of the pass that raised; errOk: whether the call returns or raises
Handled(errOk) ==
    /\ notifications' = notifications \o <<ErrorNote(NoneId, errOk)>>
    /\ raised' = ~errOk
    /\ UNCHANGED <<bankroll, maxPositionSize, current_positions, op, before,
                   snapshot, decision, applied, outcome, steps>>

\* variant of MainHandler: the `except` clause inside the loop, which goes on
MainHandlerResumes ==
    /\ pc = "handler"
    /\ pc' = "sleep"
    /\ \E errOk \in BOOLEAN : Handled(errOk)

\* `except Exception as e`: log, notifier.send_error_notification(str(e)), leave main
MainHandler ==
    /\ pc = "handler"
    /\ pc' = "done"
    /\ \E errOk \in BOOLEAN : Handled(errOk)

NextMain == MainCycle \/ MainSleep \/ MainHandler

SpecMain == Init /\ [][NextMain]_vars

\* time.sleep(TRADE_INTERVAL_SECONDS) returns
SpecMainFair == SpecMain /\ WF_vars(MainSleep)

\* ============================================================ properties
\* the bound of a trade's value, as the pair of cross-multiplied integers:
\* k * p <= bankroll * MAX_POSITION_SIZE_PERCENTAGE
WithinCap(k, p) == k * p * maxPositionSize[2] <= bankroll * maxPositionSize[1]

\* k = floor(bankroll * MAX_POSITION_SIZE_PERCENTAGE / p), stated without division
IsFloorOfCap(k, p) == k >= 0 /\ WithinCap(k, p) /\ ~WithinCap(k + 1, p)

\* the last operation was execute_trade on a proposal with a numeric price
SizedCall ==
    /\ op = "execute_trade"
    /\ TruthyDecision(decision)
    /\ decision.price > 0
    /\ decision.quantity > 0

\* the change of the proposal's market in the book over the last operation
Delta == Get(current_positions, decision.event_id) - Get(before, decision.event_id)

\* the book changed only at the proposal's market
OthersUntouched ==
    /\ DOMAIN current_positions \subseteq DOMAIN before \cup {decision.event_id}
    /\ \A k \in DOMAIN before :
        k \in DOMAIN current_positions
        /\ (k # decision.event_id => current_positions[k] = before[k])

TradeNotesSent == {i \in 1..Len(notifications) : notifications[i].kind = "trade"}

ErrorNotesSent == {i \in 1..Len(notifications) : notifications[i].kind = "error"}

C2_BookedWithinCap ==
    (op \in {"execute_trade", "run_trading_strategy"} /\ current_positions # before) =>
        /\ TruthyDecision(decision)
        /\ decision.price > 0
        /\ applied > 0
        /\ Delta \in {applied, -applied}
        /\ WithinCap(applied, decision.price)

\* a sell booked with a value exactly at the cap
C2_Witness ==
    /\ SizedCall
    /\ decision.action = "sell"
    /\ current_positions # before
    /\ Delta = -applied
    /\ applied * decision.price * maxPositionSize[2] = bankroll * maxPositionSize[1]

\* C3: zero-adjustment skip. If floor(bankroll*f/price) = 0, execute_trade
\* leaves current_positions as it was and sends no trade notification.
C3_ZeroAdjustmentSkip ==
    (SizedCall /\ IsFloorOfCap(0, decision.price)) =>
        /\ current_positions = before
        /\ TradeNotesSent = {}

\* a buy of one unit at a price above the cap, on a book that holds positions
C3_Witness ==
    /\ SizedCall
    /\ decision.action = "buy"
    /\ decision.quantity = 1
    /\ IsFloorOfCap(0, decision.price)
    /\ outcome = "skipped"
    /\ before # <<>>

\* C4: error containment, as claimed. A failure raised while sizing, booking
\* or notifying a trade is caught inside execute_trade and reported through
\* send_error_notification with the market id, and nothing propagates.  The
\* case of send_error_notification failing as well is left out of the claim.
C4_ErrorContainment ==
    (op = "execute_trade" /\ TruthyDecision(decision) /\ outcome # "error_raised") =>
        /\ ~raised
        /\ (decision.price = StrPrice \/ \E i \in TradeNotesSent : ~notifications[i].ok)
            => \E i \in ErrorNotesSent : notifications[i].event_id = decision.event_id

\* C5: scheduler termination. An exception leaving a pass of the loop takes
\* main to its handler; the handler sends one error notification, touches
\* nothing else and ends main; nothing happens after that.
C5_TerminatesOnEscape ==
    /\ [][(pc = "run" /\ raised') => pc' = "handler"]_vars
    /\ [][pc = "handler" =>
            /\ pc' = "done"
            /\ Len(notifications') = Len(notifications) + 1
            /\ notifications'[Len(notifications')].kind = "error"
            /\ current_positions' = current_positions]_vars
    /\ [][pc # "done"]_vars
    /\ [](pc \in {"handler", "done"} => outcome \in {"fetch_raised", "sizing_raised", "error_raised"})

\* fetch_market_data raised, and main has ended after one error notification
C5_Witness ==
    /\ pc = "done"
    /\ outcome = "fetch_raised"
    /\ Len(notifications) = 1
    /\ notifications[1].kind = "error"

\* the first record lacks an id / a price
LacksId(market) == market.id = NoneId

LacksPrice(market) == market.current_price = NonePrice

\* the last operation was run_trading_strategy and it fetched a snapshot
\* with a non-empty markets list
DecidedOnMarkets ==
    /\ op = "run_trading_strategy"
    /\ outcome # "fetch_raised"
    /\ snapshot.kind = "dict"
    /\ snapshot.markets # <<>>

\* C6 as claimed: the result is None only if the first record lacks both an
\* id and a price; in every other case it is a buy of 1 on that id at that price.
C6_Original ==
    DecidedOnMarkets =>
        IF LacksId(snapshot.markets[1]) /\ LacksPrice(snapshot.markets[1])
        THEN decision = NoDecision
        ELSE decision = [event_id |-> snapshot.markets[1].id, action |-> "buy",
                         quantity |-> 1, price |-> snapshot.markets[1].current_price]

\* C6 amended: the result is None if the first record lacks an id or lacks a
\* price (missing, or a false value such as 0); only a record with both gives
\* a buy of 1 on that id at that price.  Later records are never looked at.
C6_DecisionRule ==
    DecidedOnMarkets =>
        /\ decision = MakeTradeDecision([snapshot EXCEPT !.markets = <<snapshot.markets[1]>>])
        /\ IF snapshot.markets[1].id \in Markets
              /\ snapshot.markets[1].current_price \notin {NonePrice, 0}
           THEN decision = [event_id |-> snapshot.markets[1].id, action |-> "buy",
                            quantity |-> 1, price |-> snapshot.markets[1].current_price]
           ELSE decision = NoDecision

\* a first record with an id and no price, followed by a usable record: None
C6_Witness ==
    /\ DecidedOnMarkets
    /\ Len(snapshot.markets) = 2
    /\ snapshot.markets[1].id \in Markets
    /\ LacksPrice(snapshot.markets[1])
    /\ UsableMarket(snapshot.markets[2])
    /\ decision = NoDecision
    /\ outcome = "no_opportunity"

\* the last operation was a buy on a flat market that changed the book
FlatBuy ==
    /\ SizedCall
    /\ decision.action = "buy"
    /\ Get(before, decision.event_id) = 0
    /\ applied > 0

\* C7: book update round trip. A buy executed with quantity k on a flat
\* market (absent or 0) sets its position to +k; a sell of the same proposal
\* right after it brings the position to 0, the entry still present.
C7_RoundTrip ==
    /\ [](FlatBuy =>
            /\ decision.event_id \in DOMAIN current_positions
            /\ current_positions[decision.event_id] = applied
            /\ WithinCap(decision.quantity, decision.price) => applied = decision.quantity)
    /\ [][(FlatBuy /\ op' = "execute_trade"
                   /\ decision' = [decision EXCEPT !.action = "sell"]) =>
            /\ decision.event_id \in DOMAIN current_positions'
            /\ current_positions'[decision.event_id] = 0
            /\ applied' = applied]_vars

\* a sell that returned to 0 a position opened on a market absent from the book
C7_Witness ==
    /\ SizedCall
    /\ decision.action = "sell"
    /\ applied > 0
    /\ Get(before, decision.event_id) = applied
    /\ decision.event_id \in DOMAIN current_positions
    /\ current_positions[decision.event_id] = 0

\* C8: execute_trade(None) changes nothing in current_positions and calls
\* neither send_trade_notification nor send_error_notification.
C8_NoOpOnNone ==
    (op = "execute_trade" /\ decision = NoDecision) =>
        /\ current_positions = before
        /\ notifications = <<>>
        /\ ~raised

\* execute_trade(None) on a book that holds a position
C8_Witness ==
    /\ op = "execute_trade"
    /\ decision = NoDecision
    /\ outcome = "noop"
    /\ \E k \in DOMAIN current_positions : current_positions[k] # 0

\* C9: an action other than buy or sell leaves current_positions unchanged,
\* sends no trade notification and raises nothing.
C9_InvalidSideRejected ==
    (SizedCall /\ decision.action \notin {"buy", "sell"}) =>
        /\ current_positions = before
        /\ TradeNotesSent = {}
        /\ ~raised

\* an invalid side on a proposal that position sizing cut down to a positive quantity
C9_Witness ==
    /\ SizedCall
    /\ decision.action = "hold"
    /\ ~WithinCap(decision.quantity, decision.price)
    /\ ~IsFloorOfCap(0, decision.price)
    /\ outcome = "rejected"
    /\ before # <<>>

\* the snapshot is absent (None, {}) or has no markets
EmptySnapshot(md) == md.kind \in {"none", "empty"} \/ (md.kind = "dict" /\ md.markets = <<>>)

\* C10: decision emptiness. For an absent snapshot or an empty markets list
\* _make_trade_decision returns None, and the run_trading_strategy pass
\* leaves current_positions unchanged and sends no trade notification.
C10_DecisionEmptiness ==
    (op = "run_trading_strategy" /\ outcome # "fetch_raised" /\ EmptySnapshot(snapshot)) =>
        /\ MakeTradeDecision(snapshot) = NoDecision
        /\ decision = NoDecision
        /\ current_positions = before
        /\ TradeNotesSent = {}

\* a pass over {markets: []} on a book that holds a position
C10_Witness ==
    /\ op = "run_trading_strategy"
    /\ snapshot = [kind |-> "dict", markets |-> <<>>]
    /\ outcome = "no_opportunity"
    /\ current_positions = before
    /\ \E k \in DOMAIN current_positions : current_positions[k] > 0

\* the quantity execute_trade is to apply for the last proposal: the quantity
\* asked for when within the cap, else floor(bankroll*f/price)
IsExecutedQuantity(k) ==
    IF WithinCap(decision.quantity, decision.price)
    THEN k = decision.quantity
    ELSE IsFloorOfCap(k, decision.price)

\* send_trade_notification raised in the last operation
TradeNoteFailed == \E i \in TradeNotesSent : ~notifications[i].ok

\* C11: a notifier failure does not corrupt the book. If
\* send_trade_notification raises after the position update of a buy or sell,
\* the position of that market has changed by exactly the executed quantity
\* (not rolled back, not applied twice) and every other market is unchanged.
C11_NotifierFailureKeepsBook ==
    (SizedCall /\ TradeNoteFailed) =>
        /\ decision.action \in {"buy", "sell"}
        /\ \E k \in 1..MaxQty :
            /\ IsExecutedQuantity(k)
            /\ Delta = (IF decision.action = "buy" THEN k ELSE -k)
        /\ decision.event_id \in DOMAIN current_positions
        /\ OthersUntouched

\* a cut-down sell whose notification and error report both raised, while the
\* other market holds a position
C11_Witness ==
    /\ SizedCall
    /\ TradeNoteFailed
    /\ outcome = "error_raised"
    /\ decision.action = "sell"
    /\ ~WithinCap(decision.quantity, decision.price)
    /\ Delta < 0
    /\ \E k \in DOMAIN before : k # decision.event_id /\ before[k] # 0

\* C13: the notification matches the booking. An execute_trade call that
\* changes current_positions makes exactly one send_trade_notification call,
\* after the update, naming the market id, the side (Bought / Sold), the
\* price and the quantity applied to the book; and no trade notification is
\* sent without a position update in the same call.
C13_NotificationMatchesBooking ==
    op = "execute_trade" =>
        /\ current_positions # before =>
            /\ Cardinality(TradeNotesSent) = 1
            /\ notifications[1] =
                 [kind |-> "trade",
                  side |-> IF Delta > 0 THEN "Bought" ELSE "Sold",
                  quantity |-> IF Delta > 0 THEN Delta ELSE -Delta,
                  event_id |-> decision.event_id,
                  price |-> decision.price,
                  ok |-> notifications[1].ok]
            /\ decision.action = (IF Delta > 0 THEN "buy" ELSE "sell")
            /\ OthersUntouched
        /\ TradeNotesSent # {} =>
            /\ current_positions # before
            /\ decision.event_id \in DOMAIN current_positions
            /\ Delta # 0
        /\ TradeNoteFailed => current_positions # before

\* a buy cut down by position sizing: the message carries the applied
\* quantity, smaller than the one asked for
C13_Witness ==
    /\ SizedCall
    /\ outcome = "booked"
    /\ decision.action = "buy"
    /\ Len(notifications) = 1
    /\ notifications[1].kind = "trade"
    /\ notifications[1].side = "Bought"
    /\ notifications[1].quantity = Delta
    /\ notifications[1].quantity < decision.quantity
    /\ notifications[1].quantity > 0

\* the orders in which a pass makes its calls
CycleOrders == {<<"fetch">>, <<"fetch", "decide">>, <<"fetch", "decide", "execute">>}

\* the last operation was a pass of the loop that raised nothing
QuietCycle ==
    /\ op = "run_trading_strategy"
    /\ outcome \in {"no_data", "no_opportunity", "skipped", "booked", "error_reported"}

====
